---- MODULE Spec2Model ----
(***************************************************************************)
(* Model of src/src/tools.py (HSI-Classification): the masking utilities,  *)
(* the outlier exclusion / reconstruction pair, the label / cluster        *)
(* correspondence algorithm and the stratified train / test split.         *)
(*                                                                         *)
(* A 2D numpy array is a sequence of rows, each a sequence of cells; a 1D  *)
(* array is a sequence.  Python indices are 0-based and are kept 0-based   *)
(* as values; At(a, k) reads a[k].                                         *)
(***************************************************************************)
EXTENDS Integers, Sequences, FiniteSets

VARIABLES
    op,             \* the function of tools.py that was called
    pc,             \* position inside that function
    labels,         \* argument `labels`
    preds,          \* argument `preds`
    n_cluster,      \* argument `n_cluster`
    l2, c2, l, c,   \* locals of compute_labels_correspondence
    res_labels, res_preds, i, j, offset,
    X,              \* argument `X`
    outlier_pos,    \* argument `outlier_pos`
    salinas_preds,  \* first output of copy_without_outlier, first argument of rebuild
    X_positions,    \* second output of copy_without_outlier
    X_shuffle, count, labels_argsort, size, train_split,   \* arguments of split_x_train_test
    sum_, x_train, x_test, y_train, y_test,                \* locals of split_x_train_test
    ret             \* the value returned to the caller

corrVars  == <<l2, c2, l, c, res_labels, res_preds, i, j, offset>>
outVars   == <<outlier_pos, salinas_preds, X_positions>>
splitArgs == <<X_shuffle, count, labels_argsort, size, train_split>>
splitVars == <<sum_, x_train, x_test, y_train, y_test>>
vars == <<op, pc, labels, preds, n_cluster, corrVars, X, outVars, splitArgs, splitVars, ret>>

(* ------------------------------ bounds -------------------------------- *)
MaxCells == 3   \* cells of a labels / preds grid
MaxSide  == 2   \* rows and columns of a grid given to copy_without_outlier
MaxCount == 2   \* samples of one class given to split_x_train_test

None == <<>>
\* class ids, cluster ids and cell values: 0 (unclassified) and two more, enough for
\* three populations to be ranked and for an id to fall outside 0..n_cluster-1
Ids == {0, 1, 2}
\* What np.empty may hold: any value, here any value of the model's range.
EmptyVals == Ids

(* --------------------------- numpy helpers ---------------------------- *)
At(a, k) == a[k + 1]
Range(a) == {a[k] : k \in DOMAIN a}
Min2(a, b) == IF a <= b THEN a ELSE b

Rows(g) == Len(g)
Cols(g) == Len(g[1])
Size(g) == Rows(g) * Cols(g)

\* ndarray.flatten(): row-major order
Flatten(g) ==
    [k \in 1..Size(g) |-> g[((k - 1) \div Cols(g)) + 1][((k - 1) % Cols(g)) + 1]]

\* ndarray.reshape((r, cl))
Reshape(a, r, cl) == [p \in 1..r |-> [q \in 1..cl |-> a[(p - 1) * cl + q]]]

\* np.arange(n)
Arange(n) == [k \in 1..n |-> k - 1]

\* np.argwhere(a == v).flatten(): the 0-based indices holding v
ArgWhereEq(a, v) == {k \in 0..(Len(a) - 1) : At(a, k) = v}

\* a[idx] = v for an index array idx
Put(a, idx, v) == [k \in DOMAIN a |-> IF (k - 1) \in idx THEN v ELSE a[k]]

RECURSIVE SetToSeq(_)
SetToSeq(S) ==
    IF S = {} THEN <<>>
    ELSE LET m == CHOOSE x \in S : \A y \in S : x <= y
         IN  <<m>> \o SetToSeq(S \ {m})

\* np.unique(a, return_counts=True): the distinct values ascending, and their counts
UniqueVals(a) == SetToSeq(Range(a))
UniqueCounts(a) ==
    LET u == UniqueVals(a)
    IN  [k \in 1..Len(u) |-> Cardinality(ArgWhereEq(a, u[k]))]

\* the order of an unstable sort that leaves equal values in reverse index order
ArgBefore_TiesReversed(a, q, k) ==
    At(a, q) < At(a, k) \/ (At(a, q) = At(a, k) /\ q > k)

\* Whether index q comes before index k in ndarray.argsort(): smaller value first,
\* equal values in index order (numpy's default sort is an insertion sort on the
\* short arrays of distinct ids handled here).
ArgBefore(a, q, k) == At(a, q) < At(a, k) \/ (At(a, q) = At(a, k) /\ q < k)

\* ndarray.argsort()
ArgSort(a) ==
    [r \in 1..Len(a) |->
        CHOOSE k \in 0..(Len(a) - 1) :
            Cardinality({q \in 0..(Len(a) - 1) : ArgBefore(a, q, k)}) = r - 1]

\* a[mask] for a boolean mask: the kept entries in index order
RECURSIVE Compress(_, _)
Compress(a, mask) ==
    IF a = <<>> THEN <<>>
    ELSE (IF Head(mask) THEN <<Head(a)>> ELSE <<>>) \o Compress(Tail(a), Tail(mask))

\* a[lo:hi] (python slice, clipped to the array)
Slice(a, lo, hi) ==
    LET b == Min2(lo, Len(a))
        e == Min2(hi, Len(a))
    IN  IF e <= b THEN <<>> ELSE [k \in 1..(e - b) |-> a[b + k]]

\* a[idx] for an index array idx
Take(a, idx) == [k \in 1..Len(idx) |-> At(a, idx[k])]

\* np.full((n), v)
Full(n, v) == [k \in 1..n |-> v]

(* ------------------------------ inputs -------------------------------- *)
Shapes == {s \in (1..MaxCells) \X (1..MaxCells) : s[1] * s[2] <= MaxCells}
Grids(s, V) == [1..s[1] -> [1..s[2] -> V]]

\* the worked example of the documentation
ExampleLabels == <<<<0, 1, 1>>, <<2, 2, 2>>>>
ExamplePreds  == <<<<2, 2, 0>>, <<0, 1, 1>>>>

CorrIdle ==
    /\ l2 = None /\ c2 = None /\ l = None /\ c = None
    /\ res_labels = None /\ res_preds = None
    /\ i = 0 /\ j = 0 /\ offset = 0
OutIdle ==
    /\ outlier_pos = None /\ salinas_preds = None /\ X_positions = None
SplitArgsIdle ==
    /\ X_shuffle = None /\ count = None /\ labels_argsort = None
    /\ size = None /\ train_split = None
SplitIdle ==
    /\ sum_ = 0 /\ x_train = None /\ x_test = None /\ y_train = None /\ y_test = None

(* -------------------- compute_labels_correspondence ------------------- *)
InitCorr ==
    /\ op = "compute_labels_correspondence"
    /\ pc = "call"
    /\ \/ \E s \in Shapes :
             /\ labels \in Grids(s, Ids)
             /\ preds \in Grids(s, Ids)
             /\ n_cluster \in 0..Cardinality(Ids)
       \/ /\ labels = ExampleLabels
          /\ preds = ExamplePreds
          /\ n_cluster = 3
    /\ X = None
    /\ CorrIdle /\ OutIdle /\ SplitArgsIdle /\ SplitIdle
    /\ ret = None

\* line 130 without the difference in the number of distinct values
Offset_None(nl2, nl) == 0

\* line 130
Offset(nl2, nl) == nl2 - nl

\* line 134 remapping the cluster whose raw id is the loop counter
ClusterToRemap_ByRawId(lv, cv, iv, jv) == iv

\* line 134: the cluster id remapped at this iteration
ClusterToRemap(lv, cv, iv, jv) == At(lv, At(cv, jv))

\* line 135: the canonical id written into the prediction cells
PredCanonical(jv, off) == jv + off + 1

\* line 139: the canonical id written into the label cells
LabelCanonical(iv) == iv + 1

\* lines 141-142 left out
ForceUnclassified_Skipped(rp, flatLabels) == rp

\* lines 141-142
ForceUnclassified(rp, flatLabels) == Put(rp, ArgWhereEq(flatLabels, 0), 0)

\* lines 121-130
Corr_Setup ==
    /\ op = "compute_labels_correspondence" /\ pc = "call"
    /\ l2' = UniqueVals(Flatten(labels))
    /\ c2' = ArgSort(UniqueCounts(Flatten(labels)))
    /\ l' = UniqueVals(Flatten(preds))
    /\ c' = ArgSort(UniqueCounts(Flatten(preds)))
    /\ res_labels' = Flatten(labels)
    /\ res_preds' = Flatten(preds)
    /\ j' = 0
    /\ offset' = Offset(Len(l2'), Len(l'))
    /\ i' = 0
    /\ pc' = "loop"
    /\ UNCHANGED <<op, labels, preds, n_cluster, X, outVars, splitArgs, splitVars, ret>>

\* lines 132-139: one iteration of the loop.  l2[c2[i]] raises IndexError when
\* i is not an index of c2; the prediction half of the iteration has run by then.
Corr_Iter ==
    /\ op = "compute_labels_correspondence" /\ pc = "loop"
    /\ i < n_cluster
    /\ LET matched == i \in Range(l)
       IN  /\ res_preds' =
                IF matched
                THEN Put(res_preds,
                         ArgWhereEq(Flatten(preds), ClusterToRemap(l, c, i, j)),
                         PredCanonical(j, offset))
                ELSE res_preds
           /\ j' = IF matched THEN j + 1 ELSE j
    /\ IF i >= Len(c2)
       THEN /\ pc' = "IndexError"
            /\ UNCHANGED <<res_labels, i>>
       ELSE /\ res_labels' =
                Put(res_labels, ArgWhereEq(Flatten(labels), At(l2, At(c2, i))),
                    LabelCanonical(i))
            /\ i' = i + 1
            /\ pc' = "loop"
    /\ UNCHANGED <<op, labels, preds, n_cluster, l2, c2, l, c, offset,
                   X, outVars, splitArgs, splitVars, ret>>

\* lines 141-146
Corr_Return ==
    /\ op = "compute_labels_correspondence" /\ pc = "loop"
    /\ i >= n_cluster
    /\ res_preds' = ForceUnclassified(res_preds, Flatten(labels))
    /\ ret' = <<Reshape(res_labels, Rows(labels), Cols(labels)),
                Reshape(res_preds', Rows(preds), Cols(preds))>>
    /\ pc' = "returned"
    /\ UNCHANGED <<op, labels, preds, n_cluster, l2, c2, l, c, res_labels, i, j, offset,
                   X, outVars, splitArgs, splitVars>>


(* ------------- claims about compute_labels_correspondence ------------- *)
CorrReturned == op = "compute_labels_correspondence" /\ pc = "returned"
\* the loop of lines 132-139 has run to its end, lines 141-142 have not run yet
CorrLoopDone == op = "compute_labels_correspondence" /\ pc = "loop" /\ i = n_cluster
FL == Flatten(labels)
FP == Flatten(preds)
RetLabels == Flatten(ret[1])
RetPreds == Flatten(ret[2])
CountIn(a, v) == Cardinality(ArgWhereEq(a, v))
Distinct(a) == Cardinality(Range(a))
\* 0-based population rank of value v in a: how many values have a smaller
\* population, or the same population and a smaller value
PopRank(a, v) ==
    Cardinality({w \in Range(a) :
        \/ CountIn(a, w) < CountIn(a, v)
        \/ (CountIn(a, w) = CountIn(a, v) /\ w < v)})
PredsInRange == \A k \in DOMAIN FP : FP[k] \in 0..(n_cluster - 1)

\* C1: on labels = [[0,1,1],[2,2,2]], preds = [[2,2,0],[0,1,1]], n_cluster = 3 the
\* function returns res_labels = [[1,2,2],[3,3,3]] and res_preds = [[0,3,1],[1,2,2]].
C1_WorkedExample ==
    (CorrReturned /\ labels = ExampleLabels /\ preds = ExamplePreds /\ n_cluster = 3)
        => ret = << <<<<1, 2, 2>>, <<3, 3, 3>>>>, <<<<0, 3, 1>>, <<1, 2, 2>>>> >>
C1_Witness ==
    CorrReturned /\ labels = ExampleLabels /\ preds = ExamplePreds /\ n_cluster = 3

\* C2: whenever the function returns, a class of smallest population in labels has
\* canonical id 1 in res_labels, and for canonical ids a < b present in res_labels
\* the number of cells holding a is at most the number of cells holding b.
C2_RankConsistent ==
    CorrReturned =>
        /\ \E v \in Range(FL) :
              /\ \A w \in Range(FL) : CountIn(FL, v) <= CountIn(FL, w)
              /\ \A k \in DOMAIN FL : FL[k] = v => RetLabels[k] = 1
        /\ \A a \in Range(RetLabels), b \in Range(RetLabels) :
              a < b => CountIn(RetLabels, a) <= CountIn(RetLabels, b)

\* C2 on the calls whose n_cluster covers every distinct label value: there the
\* numbering is rank-consistent.
C2_RankConsistentWhenCovered ==
    (CorrReturned /\ n_cluster >= Distinct(FL)) => C2_RankConsistent

\* C3 as stated: whenever the function returns, a cell of res_preds is 0 if and
\* only if the label at the same position is 0.
C3_ZeroIffUnclassified ==
    CorrReturned => \A k \in DOMAIN FL : (RetPreds[k] = 0) <=> (FL[k] = 0)

\* C3 amended: whenever the function returns and every prediction id lies in
\* 0..n_cluster-1, a cell of res_preds is 0 if and only if its label is 0.
C3_ZeroIffUnclassifiedInRange ==
    (CorrReturned /\ PredsInRange) =>
        \A k \in DOMAIN FL : (RetPreds[k] = 0) <=> (FL[k] = 0)
C3_Witness ==
    /\ CorrReturned /\ PredsInRange
    /\ \E k \in DOMAIN FL : FL[k] = 0 /\ FP[k] # 0
    /\ \E k \in DOMAIN FL : FL[k] # 0 /\ FP[k] = 0
    /\ n_cluster < Distinct(FL)

\* C7: whenever n_cluster is smaller than the number of distinct values in labels,
\* the call ends in an error and returns no pair of grids.
C7_UndercountIsAnError ==
    (op = "compute_labels_correspondence" /\ n_cluster < Distinct(FL))
        => pc # "returned"

\* C8 as stated: a prediction cell whose raw cluster id lies outside 0..n_cluster-1
\* and whose label is non-zero keeps its raw value in res_preds.
C8_OutOfRangeKeepsRaw ==
    CorrReturned =>
        \A k \in DOMAIN FP :
            (FL[k] # 0 /\ FP[k] \notin 0..(n_cluster - 1)) => RetPreds[k] = FP[k]

\* the number of distinct raw cluster ids that lie in 0..n_cluster-1
InRangeIds == Cardinality(Range(FP) \cap 0..(n_cluster - 1))

\* C8 amended: with m the number of distinct raw cluster ids lying in 0..n_cluster-1,
\* the m clusters of smallest population get a canonical id (rank + offset + 1) and
\* the cells of every other cluster keep their raw value, whatever the raw id is.
C8_RemappedByRank ==
    CorrReturned =>
        \A k \in DOMAIN FP :
            FL[k] # 0 =>
                RetPreds[k] =
                    IF PopRank(FP, FP[k]) < InRangeIds
                    THEN PopRank(FP, FP[k]) + (Distinct(FL) - Distinct(FP)) + 1
                    ELSE FP[k]
C8_Witness ==
    /\ CorrReturned
    /\ \E k \in DOMAIN FP :
          /\ FL[k] # 0 /\ FP[k] \notin 0..(n_cluster - 1)
          /\ PopRank(FP, FP[k]) < InRangeIds
          /\ RetPreds[k] # FP[k]
    /\ \E k \in DOMAIN FP :
          /\ FL[k] # 0 /\ FP[k] \in 0..(n_cluster - 1)
          /\ PopRank(FP, FP[k]) >= InRangeIds

C10_Pre == n_cluster = Distinct(FL) /\ PredsInRange

\* C10 as stated: when n_cluster is the number of distinct label values and every
\* prediction id lies in 0..n_cluster-1, after the loop the cluster of k-th smallest
\* population holds the canonical id of the class of k-th smallest population.
C10_SameRankSameId ==
    (CorrLoopDone /\ C10_Pre) =>
        \A p \in DOMAIN FP, q \in DOMAIN FL :
            PopRank(FP, FP[p]) = PopRank(FL, FL[q]) => res_preds[p] = res_labels[q]

\* C10 amended: under the same precondition, after the loop the cluster of k-th
\* smallest population holds the canonical id of the class of (k + offset)-th
\* smallest population, offset being the number of distinct label values minus the
\* number of distinct prediction values.
C10_RankShiftedByOffset ==
    (CorrLoopDone /\ C10_Pre) =>
        \A p \in DOMAIN FP, q \in DOMAIN FL :
            PopRank(FP, FP[p]) + (Distinct(FL) - Distinct(FP)) = PopRank(FL, FL[q])
                => res_preds[p] = res_labels[q]
C10_Witness ==
    /\ CorrLoopDone /\ C10_Pre
    /\ Distinct(FL) > Distinct(FP)
    /\ Distinct(FP) >= 2

(* -------------------------- remove_unclassified ----------------------- *)
InitMask ==
    /\ op = "remove_unclassified"
    /\ pc = "call"
    /\ \E s \in Shapes :
          /\ labels \in Grids(s, Ids)
          /\ preds \in Grids(s, Ids)
    /\ n_cluster = 0
    /\ X = None
    /\ CorrIdle /\ OutIdle /\ SplitArgsIdle /\ SplitIdle
    /\ ret = None

\* lines 21-27 with the increment of line 23 applied after the zeroing of line 25
remove_unclassified_IncrementLast(p, lab) ==
    LET zeros_idx == ArgWhereEq(Flatten(lab), 0)
        preds_flatten == Put(Flatten(p), zeros_idx, 0)
    IN  Reshape([k \in DOMAIN preds_flatten |-> preds_flatten[k] + 1], Rows(p), Cols(p))

\* lines 21-27
remove_unclassified(p, lab) ==
    LET zeros_idx == ArgWhereEq(Flatten(lab), 0)
        preds_cpy == [r \in 1..Rows(p) |-> [q \in 1..Cols(p) |-> p[r][q] + 1]]
        preds_flatten == Put(Flatten(preds_cpy), zeros_idx, 0)
    IN  Reshape(preds_flatten, Rows(p), Cols(p))

RemoveUnclassified ==
    /\ op = "remove_unclassified" /\ pc = "call"
    /\ ret' = remove_unclassified(preds, labels)
    /\ pc' = "returned"
    /\ UNCHANGED <<op, labels, preds, n_cluster, corrVars, X, outVars, splitArgs, splitVars>>

\* C5: remove_unclassified returns a grid of the shape of its inputs whose cell is 0
\* where labels is 0 and the input prediction plus 1 everywhere else.
C5_MaskPredictions ==
    (op = "remove_unclassified" /\ pc = "returned") =>
        /\ Rows(ret) = Rows(preds) /\ \A r \in 1..Rows(ret) : Len(ret[r]) = Cols(preds)
        /\ \A r \in 1..Rows(preds), q \in 1..Cols(preds) :
              ret[r][q] = IF labels[r][q] = 0 THEN 0 ELSE preds[r][q] + 1
C5_Witness ==
    /\ op = "remove_unclassified" /\ pc = "returned"
    /\ Rows(preds) > 1
    /\ \E q \in 1..Cols(preds) : labels[1][q] = 0 /\ preds[1][q] # 0 /\ ret[1][q] = 0
    /\ \E r \in 1..Rows(preds) : labels[r][1] # 0 /\ preds[r][1] = 0 /\ ret[r][1] = 1

(* ----------------------- remove_unclassified_input -------------------- *)
InitMaskInput ==
    /\ op = "remove_unclassified_input"
    /\ pc = "call"
    /\ \E s \in Shapes :
          /\ labels \in Grids(s, Ids)
          /\ X \in [1..(s[1] * s[2]) -> Ids]
    /\ preds = None
    /\ n_cluster = 0
    /\ CorrIdle /\ OutIdle /\ SplitArgsIdle /\ SplitIdle
    /\ ret = None

\* lines 46-51 with the mask of lines 48-49 inverted
remove_unclassified_input_KeepZeros(x, lab) ==
    LET flat == Flatten(lab)
        idx == ArgWhereEq(flat, 0)
        mask == Put([k \in DOMAIN flat |-> FALSE], idx, TRUE)
    IN  <<Compress(x, mask), Compress(Arange(Size(lab)), mask)>>

\* lines 46-51
remove_unclassified_input(x, lab) ==
    LET flat == Flatten(lab)
        idx == ArgWhereEq(flat, 0)
        mask == Put([k \in DOMAIN flat |-> TRUE], idx, FALSE)
        arr == Arange(Size(lab))
    IN  <<Compress(x, mask), Compress(arr, mask)>>

RemoveUnclassifiedInput ==
    /\ op = "remove_unclassified_input" /\ pc = "call"
    /\ ret' = remove_unclassified_input(X, labels)
    /\ pc' = "returned"
    /\ UNCHANGED <<op, labels, preds, n_cluster, corrVars, X, outVars, splitArgs, splitVars>>

\* C9: remove_unclassified_input returns (new_X, arr_idx) of equal length, arr_idx
\* being the strictly increasing sequence of exactly the row-major flat indices whose
\* label is non-zero, and new_X[k] = X[arr_idx[k]] for every k.
C9_StableFilter ==
    (op = "remove_unclassified_input" /\ pc = "returned") =>
        LET new_X == ret[1]
            arr_idx == ret[2]
        IN  /\ Len(new_X) = Len(arr_idx)
            /\ \A a \in DOMAIN arr_idx, b \in DOMAIN arr_idx :
                  a < b => arr_idx[a] < arr_idx[b]
            /\ Range(arr_idx) =
                  {(r - 1) * Cols(labels) + (q - 1) :
                      <<r, q>> \in {rq \in (1..Rows(labels)) \X (1..Cols(labels)) :
                                       labels[rq[1]][rq[2]] # 0}}
            /\ \A k \in DOMAIN new_X : new_X[k] = At(X, arr_idx[k])
C9_Witness ==
    /\ op = "remove_unclassified_input" /\ pc = "returned"
    /\ Len(ret[2]) >= 2
    /\ Len(ret[2]) < Size(labels)
    /\ labels[1][1] = 0
    /\ ret[1][1] # ret[1][2]

(* ------------ copy_without_outlier, rebuild_data_with_outliers -------- *)
OutlierShapes ==
    {s \in (1..MaxSide) \X (1..MaxSide) : s[1] * s[2] <= MaxCells + 1}

\* the positions of an r x cl grid in row-major order, as [i, j] pairs
ScanOrder(r, cl) == [k \in 1..(r * cl) |-> <<(k - 1) \div cl, (k - 1) % cl>>]

\* outlier_pos is a python list of [i, j] pairs or an ndarray of shape (n, 2)
OutlierArgs(s) ==
    {[ndarray |-> isArr, items |-> SelectSeq(ScanOrder(s[1], s[2]), LAMBDA p : p \in O)] :
        isArr \in BOOLEAN, O \in SUBSET Range(ScanOrder(s[1], s[2]))}

InitOutlier ==
    /\ op = "copy_without_outlier"
    /\ pc = "call"
    /\ \E s \in OutlierShapes :
          /\ X \in Grids(s, Ids)
          /\ outlier_pos \in OutlierArgs(s)
    /\ labels = None /\ preds = None
    /\ n_cluster = 0
    /\ salinas_preds = None /\ X_positions = None
    /\ CorrIdle /\ SplitArgsIdle /\ SplitIdle
    /\ ret = None

\* line 101, `[i, j] in outlier_pos`.  On a list it is membership of the pair; on an
\* ndarray it is (outlier_pos == [i, j]).any(): true as soon as one outlier has
\* row i or one outlier has column j.
InOutliers(pos, o) ==
    IF o.ndarray
    THEN \E q \in Range(o.items) : q[1] = pos[1] \/ q[2] = pos[2]
    ELSE pos \in Range(o.items)

\* lines 97-105
copy_without_outlier(x, o) ==
    LET kept == SelectSeq(ScanOrder(Rows(x), Cols(x)), LAMBDA p : ~InOutliers(p, o))
    IN  <<[k \in 1..Len(kept) |-> x[kept[k][1] + 1][kept[k][2] + 1]], kept>>

\* preds[pos[0], pos[1]] = v
SetCell(g, pos, v) == [g EXCEPT ![pos[1] + 1][pos[2] + 1] = v]

\* the loops of lines 109-111 and 112-114: one write per position, in order
RECURSIVE Scatter(_, _, _)
Scatter(g, ps, vs) ==
    IF ps = <<>> THEN g
    ELSE Scatter(SetCell(g, Head(ps), Head(vs)), Tail(ps), Tail(vs))

\* lines 108-115; `empty` is what np.empty(target_shape) holds
rebuild_data_with_outliers(empty, sp, xp, o) ==
    Scatter(Scatter(empty, Slice(xp, 0, Len(sp)), sp), o.items, Full(Len(o.items), 0))

CopyWithoutOutlier ==
    /\ op = "copy_without_outlier" /\ pc = "call"
    /\ salinas_preds' = copy_without_outlier(X, outlier_pos)[1]
    /\ X_positions' = copy_without_outlier(X, outlier_pos)[2]
    /\ pc' = "copied"
    /\ UNCHANGED <<op, labels, preds, n_cluster, corrVars, X, outlier_pos,
                   splitArgs, splitVars, ret>>

\* rebuild_data_with_outliers(salinas_preds, X_positions, outlier_pos, X.shape)
RebuildDataWithOutliers ==
    /\ op = "copy_without_outlier" /\ pc = "copied"
    /\ \E empty \in Grids(<<Rows(X), Cols(X)>>, EmptyVals) :
          ret' = rebuild_data_with_outliers(empty, salinas_preds, X_positions, outlier_pos)
    /\ pc' = "returned"
    /\ UNCHANGED <<op, labels, preds, n_cluster, corrVars, X, outVars, splitArgs, splitVars>>

RoundTrip ==
    \A r \in 1..Rows(X), q \in 1..Cols(X) :
        ret[r][q] = IF <<r - 1, q - 1>> \in Range(outlier_pos.items) THEN 0 ELSE X[r][q]

\* C4: rebuild_data_with_outliers applied to the outputs of copy_without_outlier(X, O),
\* to O and to the shape of X returns a grid equal to X at every position not in O
\* and 0 at every position in O.
C4_RoundTrip ==
    (op = "copy_without_outlier" /\ pc = "returned") => RoundTrip

\* C4 on the calls that pass the outlier positions as a python list of pairs
C4_RoundTripOfLists ==
    (op = "copy_without_outlier" /\ pc = "returned" /\ ~outlier_pos.ndarray) => RoundTrip

(* --------------------------- split_x_train_test ----------------------- *)
\* the class ids iterated over: 0..K-1 for K classes
ClassLists == {Arange(n) : n \in 1..(Cardinality(Ids) - 1)}
Sum(a) == LET S[k \in 0..Len(a)] == IF k = 0 THEN 0 ELSE S[k - 1] + a[k] IN S[Len(a)]
Reverse(a) == [k \in 1..Len(a) |-> a[Len(a) + 1 - k]]
\* train_split as a fraction <<numerator, denominator>>; the denominators are powers
\* of two, so the float product of line 175 is exact
TrainSplits == {<<1, 4>>, <<1, 2>>, <<3, 4>>}
\* `size` is the feature width (an int n is the shape (n,)) or a shape (0, n)
Sizes == {<<1>>, <<0, 1>>}

InitSplit ==
    /\ op = "split_x_train_test"
    /\ pc = "call"
    /\ labels \in ClassLists
    /\ count \in [1..Len(labels) -> 0..MaxCount]
    /\ X_shuffle = Arange(Sum(count))
    /\ labels_argsort \in {Arange(Sum(count)), Reverse(Arange(Sum(count)))}
    /\ size \in Sizes
    /\ train_split \in TrainSplits
    /\ preds = None /\ X = None
    /\ n_cluster = 0
    /\ CorrIdle /\ OutIdle /\ SplitIdle
    /\ ret = None

\* the rows np.vstack sees in np.empty(size): a 1-D array is one row
EmptyRowCount(sz) == IF Len(sz) = 1 THEN 1 ELSE sz[1]

\* line 175: int(count[cluster] * train_split)
TrainCount(cnt, split) == (cnt * split[1]) \div split[2]

\* lines 164-172; i is the position of the iteration of line 174 in `labels`
Split_Setup ==
    /\ op = "split_x_train_test" /\ pc = "call"
    /\ sum_' = 0
    /\ x_train' \in [1..EmptyRowCount(size) -> EmptyVals]
    /\ x_test' \in [1..EmptyRowCount(size) -> EmptyVals]
    /\ y_train' = <<>>
    /\ y_test' = <<>>
    /\ i' = 0
    /\ pc' = "loop"
    /\ UNCHANGED <<op, labels, preds, n_cluster, l2, c2, l, c, res_labels, res_preds,
                   j, offset, X, outVars, splitArgs, ret>>

\* lines 174-184: one iteration
Split_Iter ==
    /\ op = "split_x_train_test" /\ pc = "loop"
    /\ i < Len(labels)
    /\ LET cluster == At(labels, i)
           cnt == At(count, cluster)
           idx == TrainCount(cnt, train_split)
       IN  /\ x_train' = x_train \o Take(X_shuffle, Slice(labels_argsort, sum_, sum_ + idx))
           /\ x_test' = x_test \o Take(X_shuffle, Slice(labels_argsort, sum_ + idx, sum_ + cnt))
           /\ y_train' = y_train \o Full(idx, cluster)
           /\ y_test' = y_test \o Full(cnt - idx, cluster)
           /\ sum_' = sum_ + cnt
    /\ i' = i + 1
    /\ UNCHANGED <<op, pc, labels, preds, n_cluster, l2, c2, l, c, res_labels, res_preds,
                   j, offset, X, outVars, splitArgs, ret>>

\* lines 186-187 (the display of the summary table leaves the results alone)
Split_Return ==
    /\ op = "split_x_train_test" /\ pc = "loop"
    /\ i >= Len(labels)
    /\ ret' = <<x_train, x_test, y_train, y_test>>
    /\ pc' = "returned"
    /\ UNCHANGED <<op, labels, preds, n_cluster, corrVars, X, outVars, splitArgs, splitVars>>

SplitComplete ==
    /\ Len(ret[1]) + Len(ret[2]) = Len(X_shuffle)
    /\ \A k \in DOMAIN labels :
          LET want == TrainCount(count[k], train_split)
          IN  /\ CountIn(ret[3], labels[k]) = want
              /\ CountIn(ret[4], labels[k]) = count[k] - want
    /\ Len(ret[1]) = Len(ret[3])
    /\ Len(ret[2]) = Len(ret[4])

\* C6: for per-class counts that sum to N, the length of the shuffled array,
\* split_x_train_test returns x_train and x_test with len(x_train) + len(x_test) = N,
\* and every class has floor(count * train_fraction) rows and y_train entries in
\* train and the rest of its rows in test.
C6_SplitComplete ==
    (op = "split_x_train_test" /\ pc = "returned") => SplitComplete

\* C6 on the calls whose `size` is a shape of zero rows
C6_SplitCompleteFromNoRows ==
    (op = "split_x_train_test" /\ pc = "returned" /\ EmptyRowCount(size) = 0)
        => SplitComplete

(* ----------------------------- specification -------------------------- *)
Init == InitCorr \/ InitMask \/ InitMaskInput \/ InitOutlier \/ InitSplit

Next ==
    \/ Corr_Setup \/ Corr_Iter \/ Corr_Return
    \/ RemoveUnclassified
    \/ RemoveUnclassifiedInput
    \/ CopyWithoutOutlier \/ RebuildDataWithOutliers
    \/ Split_Setup \/ Split_Iter \/ Split_Return

Spec == Init /\ [][Next]_vars
====
